---- MODULE Spec2Model ----
(***************************************************************************)
(* A model of cities_light: the normaliser (to_ascii, to_search), the slug *)
(* field and the storage constraints of Country / Region / City, the       *)
(* display name and timezone resolution of abstract_models.py, and the     *)
(* search path of admin.py.                                                *)
(*                                                                         *)
(* Text is modelled as a sequence of characters.  A character is a one     *)
(* letter string; the three non-ASCII characters used are named            *)
(*   "e_acute" (U+00E9), "sharp_s" (U+00DF), "cjk_bei" (U+5317).           *)
(***************************************************************************)
EXTENDS Integers, Sequences, FiniteSets, TLC

VARIABLES
  \* normaliser runs
  value, key1, key2, npc,
  \* search: a query against one stored City row
  q, stored, directMatch, adminMatch, spc,
  \* storage: the rows of Country / Region / City, and the last save()
  entities, lastSave,
  \* concurrent writers
  wpc, winst, wtries,
  \* display name resolution
  countryTable, regionTable, instance, display, lastCall,
  \* timezone resolution
  timezone, TIME_ZONE, pytzVersion, tzinfo,
  \* translation rows
  translations, masters, lastWrite

normVars   == <<value, key1, key2, npc>>
searchVars == <<q, stored, directMatch, adminMatch, spc>>
dbVars     == <<entities, lastSave>>
raceVars   == <<wpc, winst, wtries>>
dispVars   == <<countryTable, regionTable, instance, display, lastCall>>
tzVars     == <<timezone, TIME_ZONE, pytzVersion, tzinfo>>
transVars  == <<translations, masters, lastWrite>>
vars == <<normVars, searchVars, dbVars, raceVars, dispVars, tzVars, transVars>>

----------------------------------------------------------------------------
(* Bounds *)

\* longest input text given to the normaliser and to the search box
MaxLen == 3
\* most Country and Region rows, and most City rows, created in a run
MaxParents == 2
MaxCities == 2
\* most fresh allocations a writer makes after a rejected write
MaxRetries == 1

----------------------------------------------------------------------------
(* Characters *)

AsciiLower == {"a", "b", "c", "e", "g", "i", "p", "s", "t", "u", "y"}
AsciiUpper == {"B", "C", "G", "P", "T", "U"}
AsciiDigit == {"1", "2", "3", "4"}
UnicodeLetter == {"e_acute", "sharp_s", "cjk_bei"}

\* str.lower()
LowerChar(c) ==
  CASE c = "B" -> "b"
    [] c = "C" -> "c"
    [] c = "G" -> "g"
    [] c = "P" -> "p"
    [] c = "T" -> "t"
    [] c = "U" -> "u"
    [] OTHER -> c

\* unidecode() of one character: ASCII is kept, anything else is replaced
\* by its ASCII transliteration (which may be several characters)
UnidecodeChar(c) ==
  CASE c = "e_acute" -> <<"e">>
    [] c = "sharp_s" -> <<"s", "s">>
    [] c = "cjk_bei" -> <<"B", "e", "i", " ">>
    [] OTHER -> <<c>>

\* \w under re.UNICODE: letters, digits and the underscore
IsWordChar(c) ==
  c \in AsciiLower \cup AsciiUpper \cup AsciiDigit \cup UnicodeLetter \cup {"_"}

\* what ALPHA_REGEXP = '[\W_]+' matches
MatchesAlphaRegexp(c) == ~IsWordChar(c) \/ c = "_"

IsSpaceChar(c) == c = " "

----------------------------------------------------------------------------
(* Text helpers *)

\* unidecode() of a text: the transliterations of its characters, joined
RECURSIVE unidecode(_)
unidecode(s) ==
  IF s = <<>> THEN <<>> ELSE UnidecodeChar(Head(s)) \o unidecode(Tail(s))

Lower(s) == [i \in 1..Len(s) |-> LowerChar(s[i])]

\* ALPHA_REGEXP.sub('', s)
AlphaRegexpSub(s) == SelectSeq(s, LAMBDA c : ~MatchesAlphaRegexp(c))

\* a is a contiguous substring of b
IsSubstring(a, b) ==
  \E i \in 0..(Len(b) - Len(a)) : SubSeq(b, i + 1, i + Len(a)) = a

Strings(chars, n) == UNION {[1..k -> chars] : k \in 0..n}

----------------------------------------------------------------------------
(* Normaliser *)

\* to_ascii: force_text(unidecode(value))
to_ascii(v) == unidecode(v)

\* a to_search that lowercases and strips before transliterating
to_search_fold_first(v) == to_ascii(AlphaRegexpSub(Lower(v)))

\* to_search: ALPHA_REGEXP.sub('', to_ascii(value)).lower()
to_search(v) == Lower(AlphaRegexpSub(to_ascii(v)))

----------------------------------------------------------------------------
(* Parked values: what a specification gives the variables it does not use *)

NormIdle   == value = <<>> /\ key1 = <<>> /\ key2 = <<>> /\ npc = "off"
SearchIdle == q = <<>> /\ stored = <<>> /\ directMatch = FALSE
              /\ adminMatch = FALSE /\ spc = "off"
DbIdle     == entities = <<>> /\ lastSave = <<>>
RaceIdle   == wpc = <<>> /\ winst = <<>> /\ wtries = <<>>
DispIdle   == countryTable = <<>> /\ regionTable = <<>> /\ instance = <<>>
              /\ display = <<>> /\ lastCall = "off"
TzIdle     == timezone = <<>> /\ TIME_ZONE = "" /\ pytzVersion = "off"
              /\ tzinfo = <<>>
TransIdle  == translations = {} /\ masters = <<>> /\ lastWrite = <<>>

----------------------------------------------------------------------------
(* The normaliser applied to a text, and applied again to its own result *)

\* the characters the inputs are drawn from
InputChars == {"P", "a", "1", " ", "_", "e_acute", "sharp_s", "cjk_bei"}

NormInit ==
  /\ value \in Strings(InputChars, MaxLen)
  /\ key1 = <<>> /\ key2 = <<>> /\ npc = "input"
  /\ SearchIdle /\ DbIdle /\ RaceIdle /\ DispIdle /\ TzIdle /\ TransIdle

Normalise ==
  /\ npc = "input"
  /\ key1' = to_search(value)
  /\ npc' = "once"
  /\ UNCHANGED <<value, key2>>
  /\ UNCHANGED <<searchVars, dbVars, raceVars, dispVars, tzVars, transVars>>

NormaliseAgain ==
  /\ npc = "once"
  /\ key2' = to_search(key1)
  /\ npc' = "twice"
  /\ UNCHANGED <<value, key1>>
  /\ UNCHANGED <<searchVars, dbVars, raceVars, dispVars, tzVars, transVars>>

NormNext == Normalise \/ NormaliseAgain

SpecNorm == NormInit /\ [][NormNext]_vars

\* C7: to_search is idempotent: normalising a search key a second time
\* gives the same key, for every input text.
ToSearchIdempotent == npc = "twice" => key2 = key1

\* an input whose key differs from it and holds a transliterated character
ToSearchIdempotentWitness ==
  /\ npc = "twice"
  /\ value = <<"P", "cjk_bei", "_">>
  /\ key1 = <<"p", "b", "e", "i">>

----------------------------------------------------------------------------
(* Search: ToSearchIContainsLookup and the admin change list of City *)

\* a NULL column: a text that no value of a text column equals
NULL == <<"NULL">>

\* the characters the search box inputs are drawn from
QueryChars == {"T", "c", "a", " ", "1", "e_acute"}

\* str.split(): the maximal runs of non-whitespace characters
RECURSIVE SplitFrom(_, _)
SplitFrom(s, word) ==
  IF s = <<>> THEN (IF word = <<>> THEN <<>> ELSE <<word>>)
  ELSE IF IsSpaceChar(Head(s))
       THEN (IF word = <<>> THEN <<>> ELSE <<word>>) \o SplitFrom(Tail(s), <<>>)
       ELSE SplitFrom(Tail(s), Append(word, Head(s)))

Split(s) == SplitFrom(s, <<>>)

\* SQL: column LIKE '%needle%', case-insensitive; NULL matches nothing
IContains(needle, column) ==
  column # NULL /\ IsSubstring(Lower(needle), Lower(column))

\* a lookup that hands the value to the database as it was given
get_prep_lookup_unprepared(v) == v

\* ToSearchIContainsLookup.get_prep_lookup
get_prep_lookup(v) == to_search(v)

\* filter(search_names__icontains=v)
SearchNamesIContains(v, row) == IContains(get_prep_lookup(v), row.search_names)

\* the value of City.search_names kept for a City of this name
city_search_names(name) == to_search(name)

\* CityAdmin.search_fields, one search word against one row:
\* search_names__icontains OR geoname_id__icontains OR timezone__icontains
SearchFieldsMatch(bit, row) ==
  \/ SearchNamesIContains(bit, row)
  \/ IContains(bit, row.geoname_id)
  \/ IContains(bit, row.timezone)

\* CityChangeList.get_queryset: request.GET['q'] = to_search(request.GET['q'])
CityChangeList_q(query) == to_search(query)

\* The term the change list searches for.  ChangeList reads request.GET['q']
\* in its constructor in some Django versions, before get_queryset has
\* replaced it, and from the request handed to get_queryset in others.
ChangeListTerms(query) == {CityChangeList_q(query), query}

\* ModelAdmin.get_search_results: every word of the term must match some
\* search field; a term without words filters nothing
AdminSearchMatches(term, row) ==
  \A i \in 1..Len(Split(term)) : SearchFieldsMatch(Split(term)[i], row)

AdminSearchMatchesByName(term, row) ==
  \A i \in 1..Len(Split(term)) : SearchNamesIContains(Split(term)[i], row)

StoredNames == {<<"T", "a", " ", "c">>, <<"c", "e_acute">>}
StoredZones == {NULL, <<"U", "T", "C">>}
StoredGeonameIds == {NULL, <<"1", "1">>}

CityRow(n, tz, gid) ==
  [name |-> n, search_names |-> city_search_names(n),
   timezone |-> tz, geoname_id |-> gid]

NoAdminSearch == [term |-> <<>>, hit |-> FALSE, by_name |-> FALSE]

SearchInit ==
  /\ q \in Strings(QueryChars, MaxLen)
  /\ \E n \in StoredNames, tz \in StoredZones, gid \in StoredGeonameIds :
        stored = CityRow(n, tz, gid)
  /\ directMatch = FALSE
  /\ adminMatch = NoAdminSearch
  /\ spc = "ready"
  /\ NormIdle /\ DbIdle /\ RaceIdle /\ DispIdle /\ TzIdle /\ TransIdle

\* City.objects.filter(search_names__icontains=q)
DirectLookup ==
  /\ spc = "ready"
  /\ directMatch' = SearchNamesIContains(q, stored)
  /\ spc' = "direct"
  /\ UNCHANGED <<q, stored, adminMatch>>
  /\ UNCHANGED <<normVars, dbVars, raceVars, dispVars, tzVars, transVars>>

\* the admin change list of City, asked for ?q=<q>
AdminSearch ==
  /\ spc = "direct"
  /\ \E term \in ChangeListTerms(q) :
        adminMatch' = [term |-> term,
                       hit |-> AdminSearchMatches(term, stored),
                       by_name |-> AdminSearchMatchesByName(term, stored)]
  /\ spc' = "admin"
  /\ UNCHANGED <<q, stored, directMatch>>
  /\ UNCHANGED <<normVars, dbVars, raceVars, dispVars, tzVars, transVars>>

SearchNext == DirectLookup \/ AdminSearch

SpecSearch == SearchInit /\ [][SearchNext]_vars

\* the comparison rule of the claim: to_search(q) is a substring of the key
KeyContainsQuery == IsSubstring(to_search(q), stored.search_names)

\* C8 as stated: a query matches a stored City exactly when to_search(q) is
\* a substring of the City's search key, on the admin search path too, where
\* the change list has normalised q before the lookup normalises it again.
SearchMatchesExactlyByKey ==
  /\ spc \in {"direct", "admin"} => (directMatch <=> KeyContainsQuery)
  /\ (spc = "admin" /\ adminMatch.term = CityChangeList_q(q))
       => (adminMatch.hit <=> KeyContainsQuery)

\* C8 as amended: the search_names lookup matches exactly when to_search(q)
\* is a substring of the key, whether or not the change list normalised q
\* first; the admin search returns every City whose key contains
\* to_search(q), and may return more, since it also searches geoname_id
\* and timezone.
SearchMatchesByKeyOrOtherField ==
  /\ spc \in {"direct", "admin"} => (directMatch <=> KeyContainsQuery)
  /\ (spc = "admin" /\ adminMatch.term = CityChangeList_q(q))
       => (adminMatch.by_name <=> KeyContainsQuery)
  /\ (spc = "admin" /\ KeyContainsQuery) => adminMatch.hit

\* a query that normalisation changes, normalised twice on the admin path,
\* and matching the stored key
SearchMatchesWitness ==
  /\ spc = "admin"
  /\ q = <<"T", " ", "a">>
  /\ adminMatch.term = <<"t", "a">>
  /\ stored.search_names = <<"t", "a", "c">>
  /\ adminMatch.by_name /\ adminMatch.hit /\ directMatch

----------------------------------------------------------------------------
(* Timezone: AbstractCity.get_timezone_info *)

\* Python's None
None == "None"

\* pytz.all_timezones_set, three of its zones
all_timezones_set == {"Europe/Paris", "Asia/Tokyo", "UTC"}

\* values City.timezone can hold: the column is nullable and blank, and
\* timezone_validator runs on form validation only, not on save()
TimezoneValues ==
  {None, "", "Europe/Paris", "europe/paris", "utc", "UTC", "Not/AZone"}

\* str.upper() == 'UTC'
UpperIsUTC(zone) == zone \in {"UTC", "utc"}

\* pytz._case_insensitive_zone_lookup
case_insensitive_zone_lookup(zone) ==
  IF zone = "europe/paris" THEN "Europe/Paris" ELSE zone

\* pytz releases differ on None (older ones fail in zone.upper() with
\* AttributeError, newer ones raise UnknownTimeZoneError) and on letter case
\* (older ones look the name up as given, newer ones case-insensitively)
PytzVersions == {"none_attribute_error", "exact_case", "any_case"}

Returned(zone) == [raised |-> "", zone |-> zone]
Raised(exc) == [raised |-> exc, zone |-> ""]

\* pytz.timezone(zone)
pytz_timezone(zone, version) ==
  IF zone = None
  THEN (IF version = "none_attribute_error" THEN Raised("AttributeError")
        ELSE Raised("UnknownTimeZoneError"))
  ELSE IF UpperIsUTC(zone) THEN Returned("UTC")
  ELSE IF version = "any_case"
          /\ case_insensitive_zone_lookup(zone) \in all_timezones_set
       THEN Returned(case_insensitive_zone_lookup(zone))
  ELSE IF zone \in all_timezones_set THEN Returned(zone)
  ELSE Raised("UnknownTimeZoneError")

\* get_timezone_info with "except pytz.UnknownTimeZoneError" alone
get_timezone_info_one_except(tz, default, version) ==
  IF pytz_timezone(tz, version).raised \in {"UnknownTimeZoneError"}
  THEN pytz_timezone(default, version)
  ELSE pytz_timezone(tz, version)

\* AbstractCity.get_timezone_info:
\*   try: return pytz.timezone(self.timezone)
\*   except (pytz.UnknownTimeZoneError, AttributeError):
\*       return pytz.timezone(settings.TIME_ZONE)
get_timezone_info(tz, default, version) ==
  IF pytz_timezone(tz, version).raised
       \in {"UnknownTimeZoneError", "AttributeError"}
  THEN pytz_timezone(default, version)
  ELSE pytz_timezone(tz, version)

TzCities == {"c1", "c2"}

NoTzCall == [city |-> "", raised |-> "", zone |-> ""]

\* settings.TIME_ZONE names a zone: Django refuses to start otherwise
TzInit ==
  /\ timezone = [c \in TzCities |-> None]
  /\ TIME_ZONE \in all_timezones_set
  /\ pytzVersion \in PytzVersions
  /\ tzinfo = NoTzCall
  /\ NormIdle /\ SearchIdle /\ DbIdle /\ RaceIdle /\ DispIdle /\ TransIdle

\* city.timezone = tz; city.save()
SetTimezone(c, tz) ==
  /\ timezone' = [timezone EXCEPT ![c] = tz]
  /\ tzinfo' = NoTzCall
  /\ UNCHANGED <<TIME_ZONE, pytzVersion>>
  /\ UNCHANGED <<normVars, searchVars, dbVars, raceVars, dispVars, transVars>>

\* city.get_timezone_info()
GetTimezoneInfo(c) ==
  /\ tzinfo' = [city |-> c,
                raised |-> get_timezone_info(timezone[c], TIME_ZONE,
                                             pytzVersion).raised,
                zone |-> get_timezone_info(timezone[c], TIME_ZONE,
                                           pytzVersion).zone]
  /\ UNCHANGED <<timezone, TIME_ZONE, pytzVersion>>
  /\ UNCHANGED <<normVars, searchVars, dbVars, raceVars, dispVars, transVars>>

TzNext ==
  \/ \E c \in TzCities, tz \in TimezoneValues : SetTimezone(c, tz)
  \/ \E c \in TzCities : GetTimezoneInfo(c)

SpecTz == TzInit /\ [][TzNext]_vars

\* the zone identifiers recognised, and the zone each names
RecognizedZone(tz, version) ==
  CASE tz \in all_timezones_set -> tz
    [] tz = "utc" -> "UTC"
    [] tz = "europe/paris" /\ version = "any_case" -> "Europe/Paris"
    [] OTHER -> ""

\* C6: timezone resolution never fails: it returns the zone city.timezone
\* names when that is a recognised zone identifier, and the configured
\* default zone when city.timezone is empty, None or not recognised.
TimezoneNeverFails ==
  tzinfo.city # "" =>
    /\ tzinfo.raised = ""
    /\ tzinfo.zone =
         IF RecognizedZone(timezone[tzinfo.city], pytzVersion) # ""
         THEN RecognizedZone(timezone[tzinfo.city], pytzVersion)
         ELSE TIME_ZONE

\* None resolved to the default zone under the pytz whose timezone() fails
\* on None with AttributeError
TimezoneNeverFailsWitness ==
  /\ tzinfo.city = "c1"
  /\ timezone["c1"] = None
  /\ pytzVersion = "none_attribute_error"
  /\ TIME_ZONE = "Asia/Tokyo"
  /\ tzinfo.zone = "Asia/Tokyo"

----------------------------------------------------------------------------
(* Display names: get_display_name of Region and City, __str__ of Country *)

DispCountryIds == {"k1", "k2"}
DispRegionIds == {"r1", "r2"}
DisplayNames == {<<"P", "a">>, <<"L", "y">>}

\* a row that is not in its table (any more)
NoRow == [exists |-> FALSE, name |-> <<>>, country |-> None]

\* the object held in memory: the fields of its own row, with the ids of
\* its parents; the parents are fetched when they are read
NoInstance == [kind |-> "none", name |-> <<>>, region_id |-> None,
               country_id |-> None]

DidRaise == [raised |-> TRUE, text |-> <<>>]
DidReturn(text) == [raised |-> FALSE, text |-> text]

\* '%s, %s' % (a, b)
Format2(a, b) == a \o <<",", " ">> \o b
\* '%s, %s, %s' % (a, b, c)
Format3(a, b, c) == a \o <<",", " ">> \o b \o <<",", " ">> \o c

\* self.country / self.region: the related row, or DoesNotExist
Dereferences(table, id) == id # None /\ table[id].exists

\* AbstractCountry.__str__
AbstractCountry_str(inst) == DidReturn(inst.name)

\* AbstractRegion.get_display_name
AbstractRegion_get_display_name(inst, ctable) ==
  IF Dereferences(ctable, inst.country_id)
  THEN DidReturn(Format2(inst.name, ctable[inst.country_id].name))
  ELSE DidRaise

\* the three-part name without its try/except
AbstractCity_get_display_name_no_except(inst, ctable, rtable) ==
  IF inst.region_id # None
  THEN IF Dereferences(rtable, inst.region_id)
          /\ Dereferences(ctable, inst.country_id)
       THEN DidReturn(Format3(inst.name, rtable[inst.region_id].name,
                              ctable[inst.country_id].name))
       ELSE DidRaise
  ELSE IF Dereferences(ctable, inst.country_id)
       THEN DidReturn(Format2(inst.name, ctable[inst.country_id].name))
       ELSE DidRaise

\* AbstractCity.get_display_name
AbstractCity_get_display_name(inst, ctable, rtable) ==
  IF inst.region_id # None
  THEN \* try:
       IF Dereferences(rtable, inst.region_id)
          /\ Dereferences(ctable, inst.country_id)
       THEN DidReturn(Format3(inst.name, rtable[inst.region_id].name,
                              ctable[inst.country_id].name))
       \* except:
       ELSE IF Dereferences(ctable, inst.country_id)
            THEN DidReturn(Format2(inst.name, ctable[inst.country_id].name))
            ELSE DidRaise
  ELSE IF Dereferences(ctable, inst.country_id)
       THEN DidReturn(Format2(inst.name, ctable[inst.country_id].name))
       ELSE DidRaise

DispInit ==
  /\ countryTable = [c \in DispCountryIds |->
                       [exists |-> TRUE, name |-> <<"P", "a">>, country |-> None]]
  /\ regionTable = [r \in DispRegionIds |->
                      [exists |-> TRUE, name |-> <<"L", "y">>,
                       country |-> IF r = "r1" THEN "k1" ELSE "k2"]]
  /\ instance = NoInstance
  /\ display = DidReturn(<<>>)
  /\ lastCall = "none"
  /\ NormIdle /\ SearchIdle /\ DbIdle /\ RaceIdle /\ TzIdle /\ TransIdle

DispOthers == <<normVars, searchVars, dbVars, raceVars, tzVars, transVars>>

\* City.objects.get(...): a row whose parents exist; region is nullable
LoadCity(n, r, c) ==
  /\ countryTable[c].exists
  /\ r # None => regionTable[r].exists
  /\ instance' = [kind |-> "city", name |-> n, region_id |-> r,
                  country_id |-> c]
  /\ lastCall' = "none"
  /\ UNCHANGED <<countryTable, regionTable, display, DispOthers>>

\* Region.objects.get(pk=r)
LoadRegion(r) ==
  /\ regionTable[r].exists
  /\ instance' = [kind |-> "region", name |-> regionTable[r].name,
                  region_id |-> None, country_id |-> regionTable[r].country]
  /\ lastCall' = "none"
  /\ UNCHANGED <<countryTable, regionTable, display, DispOthers>>

\* Country.objects.get(pk=c)
LoadCountry(c) ==
  /\ countryTable[c].exists
  /\ instance' = [kind |-> "country", name |-> countryTable[c].name,
                  region_id |-> None, country_id |-> None]
  /\ lastCall' = "none"
  /\ UNCHANGED <<countryTable, regionTable, display, DispOthers>>

\* another object of the same row is renamed and saved
RenameCountry(c, n) ==
  /\ countryTable[c].exists
  /\ countryTable' = [countryTable EXCEPT ![c].name = n]
  /\ lastCall' = "none"
  /\ UNCHANGED <<regionTable, instance, display, DispOthers>>

RenameRegion(r, n) ==
  /\ regionTable[r].exists
  /\ regionTable' = [regionTable EXCEPT ![r].name = n]
  /\ lastCall' = "none"
  /\ UNCHANGED <<countryTable, instance, display, DispOthers>>

\* Region.country: on_delete=CASCADE; the object in memory stays
DeleteCountry(c) ==
  /\ countryTable[c].exists
  /\ countryTable' = [countryTable EXCEPT ![c] = NoRow]
  /\ regionTable' = [r \in DispRegionIds |->
                       IF regionTable[r].exists /\ regionTable[r].country = c
                       THEN NoRow ELSE regionTable[r]]
  /\ lastCall' = "none"
  /\ UNCHANGED <<instance, display, DispOthers>>

DeleteRegion(r) ==
  /\ regionTable[r].exists
  /\ regionTable' = [regionTable EXCEPT ![r] = NoRow]
  /\ lastCall' = "none"
  /\ UNCHANGED <<countryTable, instance, display, DispOthers>>

\* str(country), region.get_display_name(), city.get_display_name()
GetDisplayName ==
  /\ instance.kind # "none"
  /\ display' =
       CASE instance.kind = "country" -> AbstractCountry_str(instance)
         [] instance.kind = "region" ->
              AbstractRegion_get_display_name(instance, countryTable)
         [] instance.kind = "city" ->
              AbstractCity_get_display_name(instance, countryTable, regionTable)
  /\ lastCall' = instance.kind
  /\ UNCHANGED <<countryTable, regionTable, instance, DispOthers>>

DispNext ==
  \/ \E n \in DisplayNames, r \in DispRegionIds \cup {None},
         c \in DispCountryIds : LoadCity(n, r, c)
  \/ \E r \in DispRegionIds : LoadRegion(r)
  \/ \E c \in DispCountryIds : LoadCountry(c)
  \/ \E c \in DispCountryIds, n \in DisplayNames : RenameCountry(c, n)
  \/ \E r \in DispRegionIds, n \in DisplayNames : RenameRegion(r, n)
  \/ \E c \in DispCountryIds : DeleteCountry(c)
  \/ \E r \in DispRegionIds : DeleteRegion(r)
  \/ GetDisplayName

SpecDisplay == DispInit /\ [][DispNext]_vars

\* C4: display-name resolution never raises: for a Country, a Region or a
\* City, whatever the state of its parent references (region set, unset or
\* dangling; country present or not dereferenceable), it returns a string.
DisplayNameNeverRaises == lastCall # "none" => ~display.raised

\* C5: a City's display name is "name, region.name, country.name" when its
\* region is set and dereferenceable, and "name, country.name" when its
\* region is set but cannot be dereferenced or is unset; the names are those
\* the parent rows hold when the name is resolved.  (The country is the
\* City's required reference: the claim's strings presuppose its name.)
CityDisplayNameByCase ==
  (lastCall = "city" /\ Dereferences(countryTable, instance.country_id)) =>
    display =
      IF instance.region_id # None /\ regionTable[instance.region_id].exists
      THEN DidReturn(Format3(instance.name,
                             regionTable[instance.region_id].name,
                             countryTable[instance.country_id].name))
      ELSE DidReturn(Format2(instance.name,
                             countryTable[instance.country_id].name))

\* a City whose region was deleted after it was loaded and whose country
\* was renamed: the name degrades to "Pa, Ly", with the country's new name
CityDisplayNameWitness ==
  /\ lastCall = "city"
  /\ instance.region_id = "r2"
  /\ ~regionTable["r2"].exists
  /\ instance.country_id = "k1"
  /\ display = DidReturn(<<"P", "a", ",", " ", "L", "y">>)

----------------------------------------------------------------------------
(* Storage: the rows of Country, Region and City, and Model.save() *)

\* the slugify AutoSlugField uses when unidecode is installed:
\* django slugify(unidecode(s)), that is
\*   value = re.sub('[^\w\s-]', '', value).strip().lower()
\*   re.sub('[-\s]+', '-', value)
KeepsInSlug(c) == IsWordChar(c) \/ IsSpaceChar(c) \/ c = "-"

RECURSIVE LStrip(_)
LStrip(s) ==
  IF s # <<>> /\ IsSpaceChar(Head(s)) THEN LStrip(Tail(s)) ELSE s

RECURSIVE RStrip(_)
RStrip(s) ==
  IF s # <<>> /\ IsSpaceChar(s[Len(s)])
  THEN RStrip(SubSeq(s, 1, Len(s) - 1)) ELSE s

Strip(s) == RStrip(LStrip(s))

IsDashOrSpace(c) == c = "-" \/ IsSpaceChar(c)

\* re.sub('[-\s]+', '-', s)
RECURSIVE CollapseDashes(_)
CollapseDashes(s) ==
  IF s = <<>> THEN <<>>
  ELSE IF IsDashOrSpace(Head(s))
       THEN IF Len(s) > 1 /\ IsDashOrSpace(s[2])
            THEN CollapseDashes(Tail(s))
            ELSE <<"-">> \o CollapseDashes(Tail(s))
       ELSE <<Head(s)>> \o CollapseDashes(Tail(s))

slugify(s) ==
  CollapseDashes(Lower(Strip(SelectSeq(unidecode(s), KeepsInSlug))))

\* an AutoSlugField(populate_from='name_ascii', always_update=True)
AutoSlugField_pre_save_always_update(current, name_ascii) ==
  slugify(name_ascii)

\* Base.slug = AutoSlugField(populate_from='name_ascii'), on save: the slug
\* is populated from name_ascii while it is empty and kept afterwards; the
\* field is neither unique nor unique_with, so no suffix is ever added
AutoSlugField_pre_save(current, name_ascii) ==
  IF current = <<>> THEN slugify(name_ascii) ELSE slugify(current)

\* name_ascii of an entity of this name
name_ascii_of(name) == to_ascii(name)

\* the names entities are given: all slugify to a non-empty slug
EntityNames == {<<"G", "a">>, <<"g", "a">>, <<"G", " ", "e_acute">>}

\* a nullable foreign key holding NULL
NoId == 0

Ids(kind) == {i \in 1..Len(entities) : entities[i].kind = kind}

\* the instance as save() writes it: the derived fields are filled in
\* before the row is written
Saved(row) ==
  [row EXCEPT !.name_ascii = name_ascii_of(row.name),
              !.slug = AutoSlugField_pre_save(row.slug, name_ascii_of(row.name)),
              !.search_names = IF row.kind = "city"
                               THEN city_search_names(row.name) ELSE <<>>]

NewRow(kind, name, country, region) ==
  [kind |-> kind, name |-> name, name_ascii |-> <<>>, slug |-> <<>>,
   search_names |-> <<>>, country |-> country, region |-> region]

\* the unique_together of the Meta classes, as the database enforces it:
\*   AbstractRegion.Meta: (country, slug);  AbstractCity.Meta: (region, slug)
\* rows whose region is NULL never collide; Country has no constraint on slug
Collides(row, other) ==
  \/ /\ row.kind = "region" /\ other.kind = "region"
     /\ row.country = other.country /\ row.slug = other.slug
  \/ /\ row.kind = "city" /\ other.kind = "city"
     /\ row.region # NoId /\ row.region = other.region
     /\ row.slug = other.slug

\* IntegrityError on writing row as row number id
IntegrityError(row, id) ==
  \E j \in 1..Len(entities) : j # id /\ Collides(row, entities[j])

\* the scope of a slug, as the claims define it: Country: all countries;
\* Region: its country; City: its region, or its country when it has none
SameScope(a, b) ==
  /\ a.kind = b.kind
  /\ a.kind = "region" => a.country = b.country
  /\ a.kind = "city" =>
       /\ a.region = b.region
       /\ a.region = NoId => a.country = b.country

SlugsInScope(row, id) ==
  {entities[j].slug :
     j \in {k \in 1..Len(entities) : k # id /\ SameScope(row, entities[k])}}

NoSave == [op |-> "none", id |-> 0, base |-> <<>>, taken |-> {},
           previous |-> <<>>, slug |-> <<>>, status |-> ""]

DbOthers == <<normVars, searchVars, raceVars, dispVars, tzVars, transVars>>

\* Model(...).save() of a new instance
Create(kind, name, country, region) ==
  /\ entities' = IF IntegrityError(Saved(NewRow(kind, name, country, region)),
                                   Len(entities) + 1)
                 THEN entities
                 ELSE Append(entities,
                             Saved(NewRow(kind, name, country, region)))
  /\ lastSave' =
       [op |-> "create", id |-> Len(entities) + 1,
        base |-> slugify(name_ascii_of(name)),
        taken |-> SlugsInScope(NewRow(kind, name, country, region),
                               Len(entities) + 1),
        previous |-> <<>>,
        slug |-> Saved(NewRow(kind, name, country, region)).slug,
        status |-> IF IntegrityError(
                        Saved(NewRow(kind, name, country, region)),
                        Len(entities) + 1)
                   THEN "IntegrityError" ELSE "saved"]
  /\ UNCHANGED DbOthers

CreateCountry(name) ==
  /\ Cardinality(Ids("country") \cup Ids("region")) < MaxParents
  /\ Create("country", name, NoId, NoId)

CreateRegion(name, country) ==
  /\ Cardinality(Ids("country") \cup Ids("region")) < MaxParents
  /\ country \in Ids("country")
  /\ Create("region", name, country, NoId)

\* region is nullable; nothing checks that it belongs to country
CreateCity(name, region, country) ==
  /\ Cardinality(Ids("city")) < MaxCities
  /\ country \in Ids("country")
  /\ region \in Ids("region") \cup {NoId}
  /\ Create("city", name, country, region)

\* the entity's name is replaced and the instance saved
Rename(id, name) ==
  /\ id \in 1..Len(entities)
  /\ entities[id].name # name
  /\ entities' =
       IF IntegrityError(Saved([entities[id] EXCEPT !.name = name]), id)
       THEN entities
       ELSE [entities EXCEPT ![id] = Saved([entities[id] EXCEPT !.name = name])]
  /\ lastSave' =
       [op |-> "rename", id |-> id,
        base |-> slugify(name_ascii_of(name)),
        taken |-> SlugsInScope(entities[id], id),
        previous |-> entities[id].slug,
        slug |-> Saved([entities[id] EXCEPT !.name = name]).slug,
        status |-> IF IntegrityError(
                        Saved([entities[id] EXCEPT !.name = name]), id)
                   THEN "IntegrityError" ELSE "saved"]
  /\ UNCHANGED DbOthers

SlugInit ==
  /\ entities = <<>>
  /\ lastSave = NoSave
  /\ NormIdle /\ SearchIdle /\ RaceIdle /\ DispIdle /\ TzIdle /\ TransIdle

SlugNext ==
  \/ \E n \in EntityNames : CreateCountry(n)
  \/ \E n \in EntityNames, c \in 1..MaxParents : CreateRegion(n, c)
  \/ \E n \in EntityNames, r \in 0..MaxParents, c \in 1..MaxParents :
        CreateCity(n, r, c)
  \/ \E id \in 1..(MaxParents + MaxCities), n \in EntityNames : Rename(id, n)

SpecSlug == SlugInit /\ [][SlugNext]_vars

\* C1: after any sequence of creations and renames, no two entities of the
\* same kind in the same scope have the same slug (Country: all countries;
\* Region: per country; City: per region, Cities without a region per
\* country).
SlugUniqueInScope ==
  \A i, j \in 1..Len(entities) :
    (i # j /\ SameScope(entities[i], entities[j]))
      => entities[i].slug # entities[j].slug

\* the suffixed candidates base-2, base-3, ...
SuffixDigit(k) ==
  CASE k = 2 -> "2" [] k = 3 -> "3" [] k = 4 -> "4" [] k = 5 -> "5"
    [] k = 6 -> "6" [] k = 7 -> "7" [] k = 8 -> "8" [] OTHER -> "9"

Candidate(base, k) == IF k = 1 THEN base ELSE base \o <<"-", SuffixDigit(k)>>

FirstUnused(base, taken) ==
  Candidate(base,
            CHOOSE k \in 1..9 :
              /\ Candidate(base, k) \notin taken
              /\ \A l \in 1..(k - 1) : Candidate(base, l) \in taken)

\* C2: the slug allocated for a new entity is the base slug when no entity
\* of the scope uses it, and otherwise the first unused of base-2, base-3,
\* ... in increasing order.
SlugIsFirstUnusedCandidate ==
  lastSave.op = "create" =>
    lastSave.slug = FirstUnused(lastSave.base, lastSave.taken)

----------------------------------------------------------------------------
(* Cities created and renamed under an existing Country and Region *)

CityInit ==
  /\ entities = <<Saved(NewRow("country", <<"G", "a">>, NoId, NoId)),
                  Saved(NewRow("region", <<"G", "a">>, 1, NoId))>>
  /\ lastSave = NoSave
  /\ NormIdle /\ SearchIdle /\ RaceIdle /\ DispIdle /\ TzIdle /\ TransIdle

RenameCity(id, name) ==
  /\ id \in Ids("city")
  /\ Rename(id, name)

CityNext ==
  \/ \E n \in EntityNames, r \in {NoId, 2} : CreateCity(n, r, 1)
  \/ \E id \in 1..(2 + MaxCities), n \in EntityNames : RenameCity(id, n)

SpecCity == CityInit /\ [][CityNext]_vars

----------------------------------------------------------------------------
(* Concurrent writers: each saves one new entity; the slug is computed on   *)
(* the instance first and the row written afterwards                        *)

Writers == {"w1", "w2"}

\* what a writer may be creating: a Region or a City (the models with a
\* unique_together on their slug), under the Country (row 1) and Region
\* (row 2) that exist already
WriterJobs ==
  {NewRow("region", n, 1, NoId) : n \in EntityNames}
    \cup {NewRow("city", n, 1, r) : n \in EntityNames, r \in {NoId, 2}}

RaceInit ==
  /\ entities = <<Saved(NewRow("country", <<"G", " ", "e_acute">>, NoId, NoId)),
                  Saved(NewRow("region", <<"G", " ", "e_acute">>, 1, NoId))>>
  /\ lastSave = NoSave
  /\ winst \in [Writers -> WriterJobs]
  /\ wpc = [w \in Writers |-> "new"]
  /\ wtries = [w \in Writers |-> 0]
  /\ NormIdle /\ SearchIdle /\ DispIdle /\ TzIdle /\ TransIdle

RaceOthers == <<normVars, searchVars, dispVars, tzVars, transVars>>

\* save(), first half: the pre_save of the fields fills in the slug
Allocate(w) ==
  /\ wpc[w] = "new"
  /\ winst' = [winst EXCEPT ![w] = Saved(winst[w])]
  /\ wpc' = [wpc EXCEPT ![w] = "allocated"]
  /\ UNCHANGED <<entities, lastSave, wtries, RaceOthers>>

\* save(), second half: the INSERT, which the database rejects when a
\* unique_together of the table is violated
Persist(w) ==
  /\ wpc[w] = "allocated"
  /\ IF IntegrityError(winst[w], Len(entities) + 1)
     THEN /\ wpc' = [wpc EXCEPT ![w] = "conflict"]
          /\ UNCHANGED entities
     ELSE /\ wpc' = [wpc EXCEPT ![w] = "done"]
          /\ entities' = Append(entities, winst[w])
  /\ UNCHANGED <<lastSave, winst, wtries, RaceOthers>>

\* the rejected writer starts over with a fresh instance
Retry(w) ==
  /\ wpc[w] = "conflict"
  /\ wtries[w] < MaxRetries
  /\ winst' = [winst EXCEPT ![w] =
                 Saved(NewRow(winst[w].kind, winst[w].name,
                              winst[w].country, winst[w].region))]
  /\ wtries' = [wtries EXCEPT ![w] = wtries[w] + 1]
  /\ wpc' = [wpc EXCEPT ![w] = "allocated"]
  /\ UNCHANGED <<entities, lastSave, RaceOthers>>

RaceNext == \E w \in Writers : Allocate(w) \/ Persist(w) \/ Retry(w)

SpecRace == RaceInit /\ [][RaceNext]_vars

\* C3: when writers concurrently allocate a slug for the same base name in
\* the same scope and then persist, the uniqueness constraint rejects the
\* conflicting write under every interleaving, and with the rejected writer
\* retrying, the entities persisted in that scope have distinct slugs.
ConcurrentWritersGetDistinctSlugs ==
  \A w1, w2 \in Writers :
    (/\ w1 # w2
     /\ wpc[w1] = "done" /\ wpc[w2] = "done"
     /\ SameScope(winst[w1], winst[w2])
     /\ slugify(name_ascii_of(winst[w1].name))
          = slugify(name_ascii_of(winst[w2].name)))
      => winst[w1].slug # winst[w2].slug

----------------------------------------------------------------------------
(* Translations: the rows of the translations table of an entity *)

TransIds == {"e1", "e2"}
\* settings.LANGUAGES, two of its codes
Languages == {"en", "fr"}
TransNames == {<<"G", "a">>, <<"L", "y">>}

VariantsOf(e, lang) ==
  {t \in translations : t.master = e /\ t.language_code = lang}

\* the unique_together the translations declare and nothing else
translation_unique_together_declared_only(row, others) ==
  \A t \in others :
    ~(t.name = row.name /\ t.language_code = row.language_code
      /\ t.master = row.master)

\* the unique constraints of a translations table: the declared
\*   meta={'unique_together': [('name', 'language_code', 'master')]}
\* and ('language_code', 'master'), which hvad adds to the translations
\* model of every concrete TranslatableModel
translation_unique_together(row, others) ==
  \A t \in others :
    /\ ~(t.name = row.name /\ t.language_code = row.language_code
         /\ t.master = row.master)
    /\ ~(t.language_code = row.language_code /\ t.master = row.master)

Variant(e, lang, name) == [master |-> e, language_code |-> lang, name |-> name]

NoWrite == [op |-> "none", master |-> "", language_code |-> "",
            name |-> <<>>, status |-> ""]

TransInit ==
  /\ translations = {}
  /\ masters = [e \in TransIds |-> ""]
  /\ lastWrite = NoWrite
  /\ NormIdle /\ SearchIdle /\ DbIdle /\ RaceIdle /\ DispIdle /\ TzIdle

TransOthers == <<normVars, searchVars, dbVars, raceVars, dispVars, tzVars>>

\* an entity is created together with its first variant, in the language
\* that becomes its default_language
CreateEntity(e, lang, name) ==
  /\ masters[e] = ""
  /\ masters' = [masters EXCEPT ![e] = lang]
  /\ translations' = translations \cup {Variant(e, lang, name)}
  /\ lastWrite' = [op |-> "create", master |-> e, language_code |-> lang,
                   name |-> name, status |-> "saved"]
  /\ UNCHANGED TransOthers

\* a new translation row is written for the entity (INSERT)
InsertVariant(e, lang, name) ==
  /\ masters[e] # ""
  /\ IF translation_unique_together(Variant(e, lang, name), translations)
     THEN /\ translations' = translations \cup {Variant(e, lang, name)}
          /\ lastWrite' = [op |-> "insert", master |-> e,
                           language_code |-> lang, name |-> name,
                           status |-> "saved"]
     ELSE /\ UNCHANGED translations
          /\ lastWrite' = [op |-> "insert", master |-> e,
                           language_code |-> lang, name |-> name,
                           status |-> "IntegrityError"]
  /\ UNCHANGED <<masters, TransOthers>>

\* the translation row old of the entity is loaded, renamed and saved (UPDATE)
ReplaceVariant(old, name) ==
  /\ old \in translations
  /\ old.name # name
  /\ IF translation_unique_together(
          Variant(old.master, old.language_code, name), translations \ {old})
     THEN /\ translations' = (translations \ {old})
               \cup {Variant(old.master, old.language_code, name)}
          /\ lastWrite' = [op |-> "replace", master |-> old.master,
                           language_code |-> old.language_code,
                           name |-> name, status |-> "saved"]
     ELSE /\ UNCHANGED translations
          /\ lastWrite' = [op |-> "replace", master |-> old.master,
                           language_code |-> old.language_code,
                           name |-> name, status |-> "IntegrityError"]
  /\ UNCHANGED <<masters, TransOthers>>

TransNext ==
  \/ \E e \in TransIds, l \in Languages, n \in TransNames :
        CreateEntity(e, l, n)
  \/ \E e \in TransIds, l \in Languages, n \in TransNames :
        InsertVariant(e, l, n)
  \/ \E e \in TransIds, l \in Languages, n, o \in TransNames :
        ReplaceVariant(Variant(e, l, o), n)

SpecTrans == TransInit /\ [][TransNext]_vars

====
